---- MODULE Spec2Model ----
(***************************************************************************)
(* A model of src/main.js: the particle field (setupParticleCanvas), the   *)
(* cursor follower (setupCustomCursor) and the page events that drive      *)
(* them.                                                                   *)
(*                                                                         *)
(* Numbers.  JavaScript numbers are doubles; here every length, velocity   *)
(* and hue is an integer count of 1/Scale (of a pixel, a pixel per frame,  *)
(* a degree), and every product or quotient is rounded toward zero onto    *)
(* that grid.  Math.sqrt is rounded up onto the grid, which keeps the      *)
(* comparison speed > maxSpeed exact and keeps a rescaled velocity from    *)
(* exceeding maxSpeed by rounding alone.  window.innerWidth, canvas.width  *)
(* and the pointer's clientX are whole pixels, as in the browser.          *)
(* Math.random is an additive congruential stream whose state is rng; it    *)
(* returns k / RandomGrid for a k in 0 .. RandomGrid - 1.                  *)
(***************************************************************************)
EXTENDS Integers, Sequences, FiniteSets, TLC

\* ------------------------------------------------------------------ bounds
MaxFrames == 2
MaxEvents == 2
MaxProbeSteps == 2
MaxLongSteps == 721
ClosedFormSteps == 4

\* ------------------------------------------------------- program constants
repelRadiusPx == 100
maxForcePx == 2
FrictionPct == 97
SmallViewport == 768
SmallCount == 40
LargeCount == 80
DebounceMs == 250
HueDegrees == 360
CanvasDefaultWidth == 300
CanvasDefaultHeight == 150

\* ---------------------------------------------------------- the number grid
Scale == 2 * 100
RandomGrid == 2 * 5
RandomModulus == RandomGrid * RandomGrid * RandomGrid

Abs(n) == IF n < 0 THEN -n ELSE n
Max(a, b) == IF a >= b THEN a ELSE b
Min(a, b) == IF a <= b THEN a ELSE b

\* The function f on 1 .. n as a sequence, its elements computed once
AsSeq(f) == f \o <<>>

\* n / d rounded toward zero (d > 0)
Trunc(n, d) == IF n >= 0 THEN n \div d ELSE -((-n) \div d)

RECURSIVE SqrtIter(_, _)
SqrtIter(n, x) ==
    LET y == (x + n \div x) \div 2
    IN  IF y >= x THEN x ELSE SqrtIter(n, y)

\* Math.sqrt, rounded up onto the grid
Sqrt(n) ==
    IF n = 0 THEN 0
    ELSE LET f == SqrtIter(n, n)
         IN  IF f * f = n THEN f ELSE f + 1

\* Math.random(): the value returned in state s, the state after the call, and
\* the state after n calls
RandomStep == 3 * 127
RandomValue(s) == s \div (RandomGrid * RandomGrid)
RandomNext(s) == (s + RandomStep) % RandomModulus
RandomAt(s, n) == (s + n * RandomStep) % RandomModulus

\* ------------------------------------------------- constants on the grid
repelRadius == repelRadiusPx * Scale
maxForce == maxForcePx * Scale
maxSpeed == (3 * Scale) \div 2
JitterThreshold == Scale \div 20
HueIncrement == Scale \div 2
HueModulus == HueDegrees * Scale

\* undefined, where an object may stand
Undefined == [undefined |-> TRUE]

\* ------------------------------------------------------ Particle.update
\* line 283: this.hue = (this.hue + 0.5) % 360
HueStepNoWrap(h) == h + HueIncrement
HueStep(h) == (h + HueIncrement) % HueModulus

\* line 292: Math.sqrt(dx * dx + dy * dy).  Beyond repelRadius on one axis the
\* distance is at least repelRadius, and the larger offset stands for it.
Dist(dx, dy) ==
    IF Abs(dx) >= repelRadius \/ Abs(dy) >= repelRadius
    THEN Max(Abs(dx), Abs(dy))
    ELSE Sqrt(dx * dx + dy * dy)

ForceGrowing(dist) == Trunc(dist * maxForce, repelRadius)

\* lines 295-296
Force(dist) == Trunc((repelRadius - dist) * maxForce, repelRadius)
CosAtan2NoAngle(dy, dx, dist, m) == IF dist = 0 THEN 0 ELSE Trunc(dx * m, dist)

\* m * Math.cos(Math.atan2(dy, dx)) and m * Math.sin(Math.atan2(dy, dx));
\* Math.atan2(0, 0) is 0
CosAtan2(dy, dx, dist, m) == IF dist = 0 THEN m ELSE Trunc(dx * m, dist)
SinAtan2(dy, dx, dist, m) == IF dist = 0 THEN 0 ELSE Trunc(dy * m, dist)

InRange(p, m) ==
    LET dx == p.x - m.x * Scale
        dy == p.y - m.y * Scale
        dist == Dist(dx, dy)
    IN  IF dist < repelRadius
        THEN [p EXCEPT !.vx = @ + CosAtan2(dy, dx, dist, Force(dist)),
                       !.vy = @ + SinAtan2(dy, dx, dist, Force(dist))]
        ELSE p

RepelOrigin(p, m) == InRange(p, IF m = Undefined THEN [x |-> 0, y |-> 0] ELSE m)

\* lines 289-300
Repel(p, m) ==
    IF m = Undefined THEN p
    ELSE LET dx == p.x - m.x * Scale
             dy == p.y - m.y * Scale
             dist == Dist(dx, dy)
         IN  IF dist < repelRadius
             THEN [p EXCEPT !.vx = @ + CosAtan2(dy, dx, dist, Force(dist)),
                            !.vy = @ + SinAtan2(dy, dx, dist, Force(dist))]
             ELSE p

\* lines 303-304
Friction(p) ==
    [p EXCEPT !.vx = Trunc(@ * FrictionPct, 100),
              !.vy = Trunc(@ * FrictionPct, 100)]

\* lines 307-312
Speed(p) == Sqrt(p.vx * p.vx + p.vy * p.vy)
SpeedCap(p) ==
    LET speed == Speed(p)
    IN  IF speed > maxSpeed
        THEN [p EXCEPT !.vx = Trunc(@ * maxSpeed, speed),
                       !.vy = Trunc(@ * maxSpeed, speed)]
        ELSE p

\* (Math.random() - 0.5) * 0.05 for the value k / RandomGrid
JitterOf(k) == Trunc((2 * k - RandomGrid) * Scale, 40 * RandomGrid)

\* lines 315-316: a pair <<particle, rng>>; Math.random is called only on an
\* axis that is slow
Jitter(p, r) ==
    LET jx == Abs(p.vx) < JitterThreshold
        r1 == IF jx THEN RandomNext(r) ELSE r
        p1 == IF jx THEN [p EXCEPT !.vx = @ + JitterOf(RandomValue(r))] ELSE p
        jy == Abs(p.vy) < JitterThreshold
        r2 == IF jy THEN RandomNext(r1) ELSE r1
        p2 == IF jy THEN [p1 EXCEPT !.vy = @ + JitterOf(RandomValue(r1))] ELSE p1
    IN  <<p2, r2>>

\* lines 319-320
Integrate(p) == [p EXCEPT !.x = @ + p.vx, !.y = @ + p.vy]

\* -this.velocity.x * 0.5
Rebound(v) == Trunc(-v, 2)

\* lines 323-329 (dim is canvas.width) and 331-337 (dim is canvas.height) for
\* one axis: <<position, velocity>>
BounceAxisNoFarEdge(pos, vel, radius, dim) ==
    IF pos - radius < 0 THEN <<radius, Rebound(vel)>>
    ELSE <<pos, vel>>

BounceAxisNoRebound(pos, vel, radius, dim) ==
    IF pos - radius < 0 THEN <<radius, vel>>
    ELSE IF pos + radius > dim * Scale THEN <<dim * Scale - radius, vel>>
    ELSE <<pos, vel>>

BounceAxis(pos, vel, radius, dim) ==
    IF pos - radius < 0 THEN <<radius, Rebound(vel)>>
    ELSE IF pos + radius > dim * Scale THEN <<dim * Scale - radius, Rebound(vel)>>
    ELSE <<pos, vel>>

\* lines 322-337
Bounce(p, c) ==
    LET bx == BounceAxis(p.x, p.vx, p.radius, c.width)
        by == BounceAxis(p.y, p.vy, p.radius, c.height)
    IN  [p EXCEPT !.x = bx[1], !.vx = bx[2], !.y = by[1], !.vy = by[2]]

\* The particle as it stands at line 313: hue, repulsion, friction and cap done
Capped(p, m) == SpeedCap(Friction(Repel([p EXCEPT !.hue = HueStep(@)], m)))

\* The particle as it stands at line 321: jitter and integration done as well,
\* the walls not yet looked at.  <<particle, rng>>
BeforeBounce(p, m, r) ==
    LET j == Jitter(Capped(p, m), r)
    IN  <<Integrate(j[1]), j[2]>>

\* lines 282-340: <<particle, rng>>.  draw() paints and changes no state.
Update(p, m, c, r) ==
    LET b == BeforeBounce(p, m, r)
    IN  <<Bounce(b[1], c), b[2]>>

\* ------------------------------------------------------------------ state
VARIABLES
    site,          \* "loading" until initializeSite has run, then "ready"
    canvasEl,      \* document.getElementById('particle-canvas') finds an element
    cursorEl,      \* document.getElementById('custom-cursor') finds an element
    finePointer,   \* window.matchMedia('(pointer: fine)').matches
    win,           \* window.innerWidth, window.innerHeight
    canvas,        \* canvas.width, canvas.height
    particles,     \* the particles array
    nextId,        \* the identity the next constructed Particle gets
    mouse,         \* the mouse object: Undefined, or its x and y
    rng,           \* the state of Math.random
    resizeTimer,   \* the resizeTimer variable: 0 (undefined) or a timer id
    timers,        \* the pending timeouts: [id, left], left in ms
    nextTimer,     \* the id the next setTimeout returns
    listeners,     \* the registered event listeners
    raf,           \* the requestAnimationFrame callbacks of the next frame, in order
    cursorState,   \* Undefined, or target (tx, ty) and current (cx, cy)
    cursorDisplay, \* cursor.style.display
    load,          \* the header and footer fetches and what console.error logged
    menu,          \* the mobile menu: slide, overlay classes, body lock, its timers
    running,       \* Undefined, or the frame callback that is running and its place
    obs            \* observers: counters and the last step, no program state

envVars == <<canvasEl, cursorEl, finePointer>>
fieldVars == <<canvas, particles, nextId, mouse, rng>>
timerVars == <<resizeTimer, timers, nextTimer>>
cursorVars == <<cursorState, cursorDisplay>>
pageVars == <<load, menu, running>>
vars ==
    <<site, envVars, win, fieldVars, timerVars, listeners, raf, cursorVars, pageVars, obs>>

\* ----------------------------------------------------------------- inputs
Seeds == {137}
InitialSizes == {[w |-> 1024, h |-> 768], [w |-> 500, h |-> 800]}
WindowSizes == InitialSizes \cup {[w |-> 4, h |-> 4]}
MousePoints == {[x |-> 512, y |-> 394], [x |-> 1, y |-> 1]}
Delays == {150}

\* ------------------------------------------------------------ initParticles
\* lines 347-352: the particle made when the six Math.random calls return
\* k[1] / RandomGrid, ..., k[6] / RandomGrid in that order
ParticleFrom(c, k, id) ==
    LET radius == Trunc(k[1] * 3 * Scale, 2 * RandomGrid) + Scale
        x == Trunc(k[2] * (c.width * Scale - radius * 2), RandomGrid) + radius
        y == Trunc(k[3] * (c.height * Scale - radius * 2), RandomGrid) + radius
        vx == Trunc((2 * k[4] - RandomGrid) * Scale, 10 * RandomGrid)
        vy == Trunc((2 * k[5] - RandomGrid) * Scale, 10 * RandomGrid)
        hue == Trunc(k[6] * HueModulus, RandomGrid)
    IN  [id |-> id, x |-> x, y |-> y, radius |-> radius, vx |-> vx, vy |-> vy,
         hue |-> hue]

\* the same, Math.random starting in state r
NewParticle(c, r, id) ==
    ParticleFrom(c, <<RandomValue(r), RandomValue(RandomAt(r, 1)),
                      RandomValue(RandomAt(r, 2)), RandomValue(RandomAt(r, 3)),
                      RandomValue(RandomAt(r, 4)), RandomValue(RandomAt(r, 5))>>, id)

\* line 345
ParticleCount(w) == IF w.w < SmallViewport THEN SmallCount ELSE LargeCount

\* lines 346-353: the particles the loop pushes, the i-th after 6 * (i - 1) calls
Pushed(count, c, r, id) ==
    AsSeq([i \in 1 .. count |-> NewParticle(c, RandomAt(r, 6 * (i - 1)), id + i - 1)])

initParticlesKeep(old, c, w, r, id) ==
    LET count == ParticleCount(w)
    IN  [particles |-> old \o Pushed(count, c, r, id),
         rng |-> RandomAt(r, 6 * count), nextId |-> id + count]

\* lines 343-354
initParticles(old, c, w, r, id) ==
    LET count == ParticleCount(w)
    IN  [particles |-> Pushed(count, c, r, id),
         rng |-> RandomAt(r, 6 * count), nextId |-> id + count]

\* cs with each element added to the one k places before it; seven rounds, k
\* doubling, leave at place i the sum of cs up to i (for up to 128 elements)
Scan(cs, k) ==
    AsSeq([i \in 1 .. Len(cs) |-> cs[i] + IF i > k THEN cs[i - k] ELSE 0])
RunningSum(cs) == Scan(Scan(Scan(Scan(Scan(Scan(Scan(cs, 1), 2), 4), 8), 16), 32), 64)

\* The Math.random calls lines 315-316 make for a particle as it stands at
\* line 313: one for each slow axis
JitterCalls(q) ==
    (IF Abs(q.vx) < JitterThreshold THEN 1 ELSE 0)
    + (IF Abs(q.vy) < JitterThreshold THEN 1 ELSE 0)

\* line 359: particles.forEach(p => p.update()), <<particles, rng>>.  The i-th
\* update starts after the Math.random calls of the updates before it.
UpdateAll(ps, m, c, r) ==
    LET n == Len(ps)
        q == AsSeq([i \in 1 .. n |-> Capped(ps[i], m)])
        calls == RunningSum(AsSeq([i \in 1 .. n |-> JitterCalls(q[i])]))
    IN  <<AsSeq([i \in 1 .. n |->
             Bounce(Integrate(Jitter(q[i],
                        RandomAt(r, IF i = 1 THEN 0 ELSE calls[i - 1]))[1]), c)]),
          RandomAt(r, IF n = 0 THEN 0 ELSE calls[n])>>

\* lines 241-244
resizeCanvas(w) == [width |-> w.w, height |-> w.h]

\* ------------------------------------------------------------- the cursor
LerpOvershoot(current, target) == current + Trunc((target - current) * 11, 10)

\* lines 216-217 for one axis
Lerp(current, target) == current + Trunc(target - current, 10)

\* lines 212-222, the state part
animateCursor(cs) ==
    [cs EXCEPT !.cx = Lerp(@, cs.tx), !.cy = Lerp(@, cs.ty)]

\* lines 191-195
NewCursorState(w) ==
    [tx |-> (w.w * Scale) \div 2, ty |-> (w.h * Scale) \div 2,
     cx |-> (w.w * Scale) \div 2, cy |-> (w.h * Scale) \div 2]

\* ------------------------------------------------------------- the timers
clearTimeout(tm, id) == {t \in tm : t.id # id}
setTimeout(tm, id, ms) == tm \cup {[id |-> id, left |-> ms]}

ResizeHandlerNoClear(tm, rt, nt) ==
    [timers |-> setTimeout(tm, nt, DebounceMs), resizeTimer |-> nt, nextTimer |-> nt + 1]

\* lines 368-374, the listener itself: clearTimeout, then setTimeout(..., 250)
ResizeHandler(tm, rt, nt) ==
    [timers |-> setTimeout(clearTimeout(tm, rt), nt, DebounceMs),
     resizeTimer |-> nt, nextTimer |-> nt + 1]

TimerDue == \E t \in timers : t.left = 0

\* ------------------------------------------------------------------ setup
NoCursor == [state |-> Undefined, display |-> "", listeners |-> {}, raf |-> <<>>]

setupCustomCursorNoMedia(el, fine, w) ==
    IF ~el THEN NoCursor
    ELSE [state |-> animateCursor(NewCursorState(w)), display |-> "",
          listeners |-> {"mousemove:cursor", "hover:cursor"},
          raf |-> <<"animateCursor">>]

\* lines 180-225: what setupCustomCursor leaves behind.  animateCursor() is
\* called once in the setup and requests the first frame.
setupCustomCursor(el, fine, w) ==
    IF ~el THEN NoCursor
    ELSE IF ~fine THEN [NoCursor EXCEPT !.display = "none"]
    ELSE [state |-> animateCursor(NewCursorState(w)), display |-> "",
          listeners |-> {"mousemove:cursor", "hover:cursor"},
          raf |-> <<"animateCursor">>]

FieldSetup(w, r, id, ls) ==
    LET ip == initParticles(<<>>, resizeCanvas(w), w, r, id)
        u == UpdateAll(ip.particles, Undefined, resizeCanvas(w), ip.rng)
    IN  [canvas |-> resizeCanvas(w), particles |-> u[1], rng |-> u[2],
         nextId |-> ip.nextId, listeners |-> ls, raf |-> <<"animate">>, inits |-> 1]

NoField(c, r, id) ==
    [canvas |-> c, particles |-> <<>>, rng |-> r, nextId |-> id,
     listeners |-> {}, raf |-> <<>>, inits |-> 0]

setupParticleCanvasNoGuard(el, c, w, r, id) ==
    FieldSetup(w, r, id, {"resize:resizeCanvas", "mousemove:mouse", "mouseout:mouse",
                          "resize:debounce"})

setupParticleCanvasDebounced(el, c, w, r, id) ==
    IF ~el THEN NoField(c, r, id)
    ELSE FieldSetup(w, r, id, {"mousemove:mouse", "mouseout:mouse", "resize:debounce"})

\* lines 233-374: what setupParticleCanvas leaves behind.  animate() is called
\* once in the setup: the first frame runs there, and requests the second.
setupParticleCanvas(el, c, w, r, id) ==
    IF ~el THEN NoField(c, r, id)
    ELSE FieldSetup(w, r, id, {"resize:resizeCanvas", "mousemove:mouse",
                               "mouseout:mouse", "resize:debounce"})

\* ------------------------------------------------------------ the page
\* lines 38-56: both fetches done, header.html and footer.html injected
Loaded == [header |-> "injected", footer |-> "injected", errors |-> <<>>]

\* The menu as header.html ships it: slide off-screen (translate-x-full),
\* overlay hidden and transparent, body scrolling, no timer pending
MenuClosed ==
    [slide |-> FALSE, hidden |-> TRUE, opacity0 |-> TRUE, locked |-> FALSE, timers |-> <<>>]

\* The delays of the overlay's two timers, in ms
OverlayFadeMs == 10
OverlayHideMs == 300

\* lines 145-152, all three elements found: the slide comes in, the overlay
\* loses 'hidden' now and 'opacity-0' in 10 ms, the body stops scrolling
openMenu(m) ==
    [m EXCEPT !.slide = TRUE, !.hidden = FALSE, !.locked = TRUE,
              !.timers = Append(@, [cb |-> "show", left |-> OverlayFadeMs])]

\* lines 154-161: the slide goes out, the overlay gets 'opacity-0' now and
\* 'hidden' in 300 ms, the body scrolls again
closeMenu(m) ==
    [m EXCEPT !.slide = FALSE, !.opacity0 = TRUE, !.locked = FALSE,
              !.timers = Append(@, [cb |-> "hide", left |-> OverlayHideMs])]

\* lines 149 and 158: the callbacks of the two timers
menuTimer(m, cb) ==
    IF cb = "show" THEN [m EXCEPT !.opacity0 = FALSE] ELSE [m EXCEPT !.hidden = TRUE]

\* The timers of the menu that are due, oldest first
MenuDue(m) == {i \in DOMAIN m.timers : m.timers[i].left = 0}

Without(q, i) == [j \in 1..(Len(q) - 1) |-> IF j < i THEN q[j] ELSE q[j + 1]]

\* lines 46 and 56: what console.error has logged when the fetch of file f ends with
\* outcome o ("ok", "status" for a response that is not ok, "network")
Logged(errors, f, o) == IF o = "ok" THEN errors ELSE Append(errors, [file |-> f, cause |-> o])

\* lines 38-46 (header) and 48-56 (footer): the promise chain of one fetch
\* settles; .catch turns a rejection into a fulfilled promise
fetchSettled(l, f, o) ==
    [l EXCEPT ![f] = IF o = "ok" THEN "injected" ELSE "failed",
              !.errors = Logged(@, f, o)]

SettledAny(l) == l.header # "pending" \/ l.footer # "pending"

\* line 59: Promise.all([loadHeader, loadFooter]) is fulfilled
Settled(l) == l.header # "pending" /\ l.footer # "pending"

\* lines 72-82: the calls of initializeSite, in order
SetupSteps ==
    <<"setupThemeToggle", "setupMobileMenu", "setupCustomCursor", "setupParticleCanvas">>

HandlerMayRunAnytime(r) == TRUE

\* lines 357-361: animate is one synchronous call, and the browser runs an
\* event handler or timer callback only when no callback is running
HandlerMayRun(r) == r = Undefined

\* ---------------------------------------------------------------- actions
Obs0 ==
    [frames |-> 0,       \* animation frames run since the setup
     events |-> 0,       \* events dispatched
     initCalls |-> 0,    \* calls of initParticles
     resized |-> FALSE,  \* a resize event has been dispatched
     sinceResize |-> 2 * DebounceMs, \* ms since the last resize event, capped
     burstLen |-> 0,     \* resize events of the current burst
     burstInits |-> 0,   \* initParticles calls since the current burst began
     bornIn |-> Undefined, \* the canvas size the collection was created in
     fine0 |-> FALSE,    \* what matchMedia answered at the setup
     last |-> "load",    \* the last step taken
     k |-> 0,            \* cursor frames since the target last changed
     c0x |-> 0,          \* the cursor's current position when it did
     c0y |-> 0,
     steps |-> 0,        \* updates of the single particle (SpecUpdate, SpecLong)
     hue0 |-> 0,         \* its hue at creation
     mouse0 |-> Undefined,  \* when the running frame began: the pointer,
     canvas0 |-> Undefined, \* the canvas size,
     ps0 |-> <<>>,          \* the collection
     rng0 |-> 0,            \* and the state of Math.random
     siteInits |-> 0,       \* calls of initializeSite
     setup |-> <<>>]        \* the setup functions called, in order

Init ==
    /\ site = "loading"
    /\ canvasEl \in BOOLEAN
    /\ cursorEl \in BOOLEAN
    /\ finePointer \in BOOLEAN
    /\ win \in InitialSizes
    /\ canvas = IF canvasEl
                THEN [width |-> CanvasDefaultWidth, height |-> CanvasDefaultHeight]
                ELSE Undefined
    /\ particles = <<>>
    /\ nextId = 1
    /\ mouse = Undefined
    /\ rng \in Seeds
    /\ resizeTimer = 0
    /\ timers = {}
    /\ nextTimer = 1
    /\ listeners = {}
    /\ raf = <<>>
    /\ cursorState = Undefined
    /\ cursorDisplay = ""
    /\ load = Loaded
    /\ menu = MenuClosed
    /\ running = Undefined
    /\ obs = Obs0

\* lines 71-83
InitializeSite ==
    /\ site = "loading"
    /\ Settled(load)
    /\ LET cu == setupCustomCursor(cursorEl, finePointer, win)
           pc == setupParticleCanvas(canvasEl, canvas, win, rng, nextId)
       IN  /\ site' = "ready"
           /\ cursorState' = cu.state
           /\ cursorDisplay' = cu.display
           /\ canvas' = pc.canvas
           /\ particles' = pc.particles
           /\ rng' = pc.rng
           /\ nextId' = pc.nextId
           /\ mouse' = Undefined
           /\ listeners' = cu.listeners \cup pc.listeners
           /\ raf' = cu.raf \o pc.raf
           /\ obs' = [obs EXCEPT !.initCalls = @ + pc.inits, !.last = "initializeSite",
                                 !.siteInits = @ + 1, !.setup = @ \o SetupSteps,
                                 !.fine0 = finePointer,
                                 !.bornIn = IF pc.inits > 0 THEN pc.canvas ELSE @,
                                 !.c0x = IF cu.state = Undefined THEN 0 ELSE cu.state.cx,
                                 !.c0y = IF cu.state = Undefined THEN 0 ELSE cu.state.cy]
    /\ UNCHANGED <<envVars, win, timerVars, pageVars>>

\* A resize event: the window has its new size when the listeners run, line 246's
\* first and then line 368's.  A timer that is due runs before a later event.
Resize(s) ==
    /\ site = "ready"
    /\ HandlerMayRun(running)
    /\ obs.events < MaxEvents
    /\ s # win
    /\ ~TimerDue
    /\ win' = s
    /\ canvas' = IF "resize:resizeCanvas" \in listeners THEN resizeCanvas(s) ELSE canvas
    /\ LET h == ResizeHandler(timers, resizeTimer, nextTimer)
       IN  IF "resize:debounce" \in listeners
           THEN /\ timers' = h.timers
                /\ resizeTimer' = h.resizeTimer
                /\ nextTimer' = h.nextTimer
           ELSE UNCHANGED timerVars
    /\ obs' = [obs EXCEPT !.events = @ + 1, !.sinceResize = 0, !.resized = TRUE,
                          !.burstInits = IF obs.sinceResize >= DebounceMs THEN 0 ELSE @,
                          !.burstLen = IF obs.sinceResize >= DebounceMs THEN 1 ELSE @ + 1,
                          !.last = "resize"]
    /\ UNCHANGED <<site, envVars, particles, nextId, mouse, rng, listeners, raf, cursorVars, pageVars>>

\* Time passes while a timer is pending, by d ms or up to the moment the next
\* timer comes due.  (With no timer pending the passing of time changes nothing.)
Tick(d) ==
    /\ timers # {}
    /\ ~TimerDue
    /\ LET step == Min(d, CHOOSE m \in {t.left : t \in timers} :
                              \A t \in timers : m <= t.left)
       IN  /\ timers' = {[t EXCEPT !.left = @ - step] : t \in timers}
           /\ obs' = [obs EXCEPT !.sinceResize = Min(@ + step, 2 * DebounceMs),
                                 !.last = "tick"]
    /\ UNCHANGED <<site, envVars, win, fieldVars, resizeTimer, nextTimer, listeners, raf,
                   cursorVars, pageVars>>

\* lines 370-373: the debounce timer's callback
TimerFire ==
    /\ HandlerMayRun(running)
    /\ \E t \in timers :
          /\ t.left = 0
          /\ timers' = timers \ {t}
    /\ LET ip == initParticles(particles, resizeCanvas(win), win, rng, nextId)
       IN  /\ canvas' = resizeCanvas(win)
           /\ particles' = ip.particles
           /\ rng' = ip.rng
           /\ nextId' = ip.nextId
    /\ obs' = [obs EXCEPT !.initCalls = @ + 1, !.burstInits = @ + 1, !.last = "timer",
                          !.bornIn = resizeCanvas(win)]
    /\ UNCHANGED <<site, envVars, win, mouse, resizeTimer, nextTimer, listeners, raf,
                   cursorVars, pageVars>>

animateOnce(st, m, c) ==
    LET u == UpdateAll(st.particles, m, c, st.rng)
    IN  [st EXCEPT !.particles = u[1], !.rng = u[2]]

\* lines 357-361: animate as a frame callback.  st holds particles, rng,
\* cursorState and requests, the callbacks requested for the next frame.
animate(st, m, c) ==
    LET u == UpdateAll(st.particles, m, c, st.rng)
    IN  [st EXCEPT !.particles = u[1], !.rng = u[2],
                   !.requests = Append(@, "animate")]

\* lines 212-222: animateCursor as a frame callback
animateCursorFrame(st) ==
    [st EXCEPT !.cursorState = animateCursor(@),
               !.requests = Append(@, "animateCursor")]

\* The browser runs the callbacks of one frame in the order they were requested.
RECURSIVE RunCallbacks(_, _, _, _)
RunCallbacks(cbs, st, m, c) ==
    IF cbs = <<>> THEN st
    ELSE RunCallbacks(Tail(cbs),
                      IF Head(cbs) = "animate" THEN animate(st, m, c)
                      ELSE animateCursorFrame(st),
                      m, c)

\* One animation frame: every pending callback runs, no event in between.
Frame ==
    /\ raf # <<>>
    /\ obs.frames < MaxFrames
    /\ LET st == RunCallbacks(raf,
                     [particles |-> particles, rng |-> rng, cursorState |-> cursorState,
                      requests |-> <<>>], mouse, canvas)
       IN  /\ particles' = st.particles
           /\ rng' = st.rng
           /\ cursorState' = st.cursorState
           /\ raf' = st.requests
    /\ obs' = [obs EXCEPT !.frames = @ + 1, !.k = @ + 1, !.last = "frame"]
    /\ UNCHANGED <<site, envVars, win, canvas, nextId, mouse, timerVars, listeners,
                   cursorDisplay, pageVars>>

\* A mousemove event inside the window: lines 198-201 and 248-251
MouseMove(pt) ==
    /\ site = "ready"
    /\ HandlerMayRun(running)
    /\ obs.events < MaxEvents
    /\ pt.x <= win.w /\ pt.y <= win.h
    /\ mouse' = IF "mousemove:mouse" \in listeners THEN pt ELSE mouse
    /\ cursorState' = IF "mousemove:cursor" \in listeners
                      THEN [cursorState EXCEPT !.tx = pt.x * Scale, !.ty = pt.y * Scale]
                      ELSE cursorState
    /\ obs' = [obs EXCEPT !.events = @ + 1, !.last = "mousemove", !.k = 0,
                          !.c0x = IF cursorState = Undefined THEN 0 ELSE cursorState.cx,
                          !.c0y = IF cursorState = Undefined THEN 0 ELSE cursorState.cy]
    /\ UNCHANGED <<site, envVars, win, canvas, particles, nextId, rng, timerVars,
                   listeners, raf, cursorDisplay, pageVars>>

\* A mouseout event: lines 252-255
MouseOut ==
    /\ site = "ready"
    /\ HandlerMayRun(running)
    /\ obs.events < MaxEvents
    /\ mouse' = IF "mouseout:mouse" \in listeners THEN Undefined ELSE mouse
    /\ obs' = [obs EXCEPT !.events = @ + 1, !.last = "mouseout"]
    /\ UNCHANGED <<site, envVars, win, canvas, particles, nextId, rng, timerVars,
                   listeners, raf, cursorVars, pageVars>>

\* A fine pointer becomes available after the setup found none (a mouse is
\* plugged in); nothing in main.js listens for it.
DeviceChange ==
    /\ site = "ready"
    /\ obs.events < MaxEvents
    /\ ~finePointer
    /\ finePointer' = TRUE
    /\ obs' = [obs EXCEPT !.events = @ + 1, !.last = "devicechange"]
    /\ UNCHANGED <<site, canvasEl, cursorEl, win, fieldVars, timerVars, listeners, raf,
                   cursorVars, pageVars>>

Next ==
    \/ InitializeSite
    \/ \E s \in WindowSizes : Resize(s)
    \/ \E d \in Delays : Tick(d)
    \/ TimerFire
    \/ Frame
    \/ \E pt \in MousePoints : MouseMove(pt)
    \/ MouseOut
    \/ DeviceChange

Spec == Init /\ [][Next]_vars

\* The step that runs the frame's callbacks, by what it does to the observers
\* (Frame is the only action that counts a frame)
FrameCallbacks ==
    /\ raf # <<>> /\ obs.frames < MaxFrames
    /\ obs' = [obs EXCEPT !.frames = @ + 1, !.k = @ + 1, !.last = "frame"]

\* The browser runs the requested frame callbacks at the next repaint.
SpecLoop == Init /\ [][Next]_vars /\ WF_obs(FrameCallbacks)

\* ------------------------------------------- one particle under update
\* The Math.random results that make the probed particle: small and large
\* radius, at the near edge and mid-surface, each velocity extreme and rest.
ProbeDraws ==
    {<<k1, k2, k3, k4, k5, k6>> : k1 \in {0, 9}, k2 \in {0, 5}, k3 \in {0, 5},
                                 k4 \in {0, 5, 9}, k5 \in {0, 5, 9}, k6 \in {0, 9}}
LongDraws == {<<0, 5, 5, 5, 5, k6>> : k6 \in {0, 3, 9}}

\* Where the pointer is when the particle is probed: on the mid-surface
\* particle, 5, 10, 50 and 100 px from it, and on the corner particle
ProbePoints ==
    {[x |-> 512, y |-> 384], [x |-> 515, y |-> 388], [x |-> 512, y |-> 394],
     [x |-> 542, y |-> 424], [x |-> 572, y |-> 464], [x |-> 1, y |-> 1]}

\* A page after the setup whose collection is the one particle the draws k
\* make on a canvas of size b, the window now of size w (a resize event after
\* the collection was made when they differ, its debounce timer pending).
InitOne(draws, births, sizes) ==
    /\ site = "ready"
    /\ canvasEl = TRUE
    /\ cursorEl = FALSE
    /\ finePointer = FALSE
    /\ win \in sizes
    /\ canvas = resizeCanvas(win)
    /\ \E k \in draws, b \in births :
          /\ particles = <<ParticleFrom(resizeCanvas(b), k, 1)>>
          /\ timers = IF b = win THEN {} ELSE setTimeout({}, 1, DebounceMs)
          /\ obs = [Obs0 EXCEPT !.bornIn = resizeCanvas(b), !.initCalls = 1,
                                !.resized = b # win,
                                !.sinceResize = IF b = win THEN @ ELSE 0,
                                !.hue0 = ParticleFrom(resizeCanvas(b), k, 1).hue]
    /\ resizeTimer = IF timers = {} THEN 0 ELSE 1
    /\ nextTimer = IF timers = {} THEN 1 ELSE 2
    /\ nextId = 2
    /\ mouse \in {Undefined} \cup {pt \in ProbePoints : pt.x <= win.w /\ pt.y <= win.h}
    /\ rng \in Seeds
    /\ listeners = {"resize:resizeCanvas", "mousemove:mouse", "mouseout:mouse",
                    "resize:debounce"}
    /\ raf = <<"animate">>
    /\ cursorState = Undefined
    /\ cursorDisplay = ""
    /\ load = Loaded
    /\ menu = MenuClosed
    /\ running = Undefined

\* line 359 for the one particle, at most limit times
UpdateOne(limit) ==
    /\ obs.steps < limit
    /\ LET u == Update(particles[1], mouse, canvas, rng)
       IN  /\ particles' = <<u[1]>>
           /\ rng' = u[2]
    /\ obs' = [obs EXCEPT !.steps = @ + 1, !.last = "update"]
    /\ UNCHANGED <<site, envVars, win, canvas, nextId, mouse, timerVars, listeners, raf,
                   cursorVars, pageVars>>

InitUpdate == InitOne(ProbeDraws, InitialSizes, WindowSizes)
UpdateProbe == UpdateOne(MaxProbeSteps)
SpecUpdate == InitUpdate /\ [][UpdateProbe]_vars

InitLong == InitOne(LongDraws, {[w |-> 1024, h |-> 768]}, {[w |-> 1024, h |-> 768]})
UpdateLong == UpdateOne(MaxLongSteps)
SpecLong == InitLong /\ [][UpdateLong]_vars

\* ------------------------------------------------- loading the page
FetchOutcomes == {"ok", "status", "network"}

\* lines 11-19 and 30-59: the DOMContentLoaded handler has called
\* loadHtmlComponents, both fetches are under way
InitLoad ==
    /\ site = "loading"
    /\ canvasEl \in BOOLEAN
    /\ cursorEl \in BOOLEAN
    /\ finePointer \in BOOLEAN
    /\ win \in InitialSizes
    /\ canvas = IF canvasEl
                THEN [width |-> CanvasDefaultWidth, height |-> CanvasDefaultHeight]
                ELSE Undefined
    /\ particles = <<>>
    /\ nextId = 1
    /\ mouse = Undefined
    /\ rng \in Seeds
    /\ resizeTimer = 0
    /\ timers = {}
    /\ nextTimer = 1
    /\ listeners = {}
    /\ raf = <<>>
    /\ cursorState = Undefined
    /\ cursorDisplay = ""
    /\ load = [header |-> "pending", footer |-> "pending", errors |-> <<>>]
    /\ menu = MenuClosed
    /\ running = Undefined
    /\ obs = Obs0

\* The fetch of header.html or footer.html ends, well or not
FetchSettle(f) ==
    /\ load[f] = "pending"
    /\ \E o \in FetchOutcomes : load' = fetchSettled(load, f, o)
    /\ obs' = [obs EXCEPT !.last = "fetch"]
    /\ UNCHANGED <<site, envVars, win, fieldVars, timerVars, listeners, raf, cursorVars,
                   menu, running>>

NextLoad ==
    \/ FetchSettle("header")
    \/ FetchSettle("footer")
    \/ InitializeSite

\* lines 15-19: the step that runs the then-callback of loadHtmlComponents()
\* (InitializeSite is the only action that changes site)
ThenCallback == site = "loading" /\ Settled(load) /\ site' = "ready"

\* Every fetch ends, and a fulfilled promise's then-callback is run.
SpecLoad ==
    /\ InitLoad /\ [][NextLoad]_vars
    /\ WF_vars(FetchSettle("header")) /\ WF_vars(FetchSettle("footer"))
    /\ WF_site(ThenCallback)

\* --------------------------------------- a frame, particle by particle
MaxFrameEvents == 1

\* The page with a canvas and no cursor element, before initializeSite
InitFrame == Init /\ canvasEl /\ ~cursorEl /\ ~finePointer

\* lines 357-358: the browser takes the callback off the frame's list and
\* calls it; clearRect paints and changes no state
FrameBegin ==
    /\ running = Undefined
    /\ raf # <<>> /\ Head(raf) = "animate"
    /\ obs.frames < MaxFrames
    /\ running' = [cb |-> "animate", i |-> 1]
    /\ raf' = Tail(raf)
    /\ obs' = [obs EXCEPT !.mouse0 = mouse, !.canvas0 = canvas, !.ps0 = particles,
                          !.rng0 = rng, !.last = "begin"]
    /\ UNCHANGED <<site, envVars, win, fieldVars, timerVars, listeners, cursorVars, load,
                   menu>>

\* line 359: forEach calls update on the next particle of the array
UpdateNext ==
    /\ running # Undefined
    /\ running.i <= Len(particles)
    /\ LET u == Update(particles[running.i], mouse, canvas, rng)
       IN  /\ particles' = [particles EXCEPT ![running.i] = u[1]]
           /\ rng' = u[2]
    /\ running' = [running EXCEPT !.i = @ + 1]
    /\ obs' = [obs EXCEPT !.last = "update"]
    /\ UNCHANGED <<site, envVars, win, canvas, nextId, mouse, timerVars, listeners, raf,
                   cursorVars, load, menu>>

\* lines 359-361: forEach is through; the next frame is requested and animate
\* returns
FrameEnd ==
    /\ running # Undefined
    /\ running.i > Len(particles)
    /\ raf' = Append(raf, "animate")
    /\ running' = Undefined
    /\ obs' = [obs EXCEPT !.frames = @ + 1, !.k = @ + 1, !.last = "frame"]
    /\ UNCHANGED <<site, envVars, win, fieldVars, timerVars, listeners, cursorVars, load,
                   menu>>

\* Time passes between frames (a frame takes none).
NextFrame ==
    \/ InitializeSite
    \/ FrameBegin
    \/ UpdateNext
    \/ FrameEnd
    \/ obs.events < MaxFrameEvents /\ \E s \in WindowSizes : Resize(s)
    \/ HandlerMayRun(running) /\ \E d \in Delays : Tick(d)
    \/ TimerFire
    \/ obs.events < MaxFrameEvents /\ \E pt \in MousePoints : MouseMove(pt)
    \/ obs.events < MaxFrameEvents /\ MouseOut

SpecFrame == InitFrame /\ [][NextFrame]_vars

\* ---------------------------------------------------- the mobile menu
MaxMenuCalls == 3

\* The times that pass between two steps, in ms
MenuDelays == {5, 100}

\* The page with the header injected and neither canvas nor cursor element
InitMenu == Init /\ ~canvasEl /\ ~cursorEl /\ ~finePointer /\ win.w = 1024

\* line 163: a click on the menu button
OpenMenu ==
    /\ site = "ready"
    /\ obs.events < MaxMenuCalls
    /\ MenuDue(menu) = {}
    /\ menu' = openMenu(menu)
    /\ obs' = [obs EXCEPT !.events = @ + 1, !.last = "openMenu"]
    /\ UNCHANGED <<site, envVars, win, fieldVars, timerVars, listeners, raf, cursorVars,
                   load, running>>

\* lines 164-171: a click on the overlay or on a link of the menu
CloseMenu ==
    /\ site = "ready"
    /\ obs.events < MaxMenuCalls
    /\ MenuDue(menu) = {}
    /\ menu' = closeMenu(menu)
    /\ obs' = [obs EXCEPT !.events = @ + 1, !.last = "closeMenu"]
    /\ UNCHANGED <<site, envVars, win, fieldVars, timerVars, listeners, raf, cursorVars,
                   load, running>>

\* d ms pass while some menu timer is pending and none comes due earlier
MenuTick(d) ==
    /\ menu.timers # <<>>
    /\ \A i \in DOMAIN menu.timers : menu.timers[i].left >= d
    /\ menu' = [menu EXCEPT !.timers =
                    [i \in DOMAIN @ |-> [@[i] EXCEPT !.left = @ - d]]]
    /\ obs' = [obs EXCEPT !.last = "tick"]
    /\ UNCHANGED <<site, envVars, win, fieldVars, timerVars, listeners, raf, cursorVars,
                   load, running>>

\* The oldest due timer of the menu fires; nothing ever cancels one
MenuTimerFire ==
    /\ MenuDue(menu) # {}
    /\ LET i == CHOOSE j \in MenuDue(menu) : \A k \in MenuDue(menu) : j <= k
           m == menuTimer(menu, menu.timers[i].cb)
       IN  menu' = [m EXCEPT !.timers = Without(@, i)]
    /\ obs' = [obs EXCEPT !.last = "menuTimer"]
    /\ UNCHANGED <<site, envVars, win, fieldVars, timerVars, listeners, raf, cursorVars,
                   load, running>>

NextMenu ==
    \/ InitializeSite
    \/ OpenMenu
    \/ CloseMenu
    \/ \E d \in MenuDelays : MenuTick(d)
    \/ MenuTimerFire

SpecMenu == InitMenu /\ [][NextMenu]_vars

\* ------------------------------------------- the cursor, target constant
CursorStarts == {[x |-> 512, y |-> 384], [x |-> 470, y |-> 400]}
CursorTargets ==
    {[x |-> 512, y |-> 394], [x |-> 560, y |-> 300], [x |-> 412, y |-> 384],
     [x |-> 512, y |-> 384]}

\* A page with the cursor loop running, the indicator at a point of
\* CursorStarts when the last mousemove set the target
InitCursor ==
    /\ site = "ready"
    /\ canvasEl = FALSE
    /\ cursorEl = TRUE
    /\ finePointer = TRUE
    /\ win = [w |-> 1024, h |-> 768]
    /\ canvas = Undefined
    /\ particles = <<>>
    /\ nextId = 1
    /\ mouse = Undefined
    /\ rng \in Seeds
    /\ resizeTimer = 0
    /\ timers = {}
    /\ nextTimer = 1
    /\ listeners = {"mousemove:cursor", "hover:cursor"}
    /\ raf = <<"animateCursor">>
    /\ \E c \in CursorStarts, t \in CursorTargets :
          /\ cursorState = [tx |-> t.x * Scale, ty |-> t.y * Scale,
                            cx |-> c.x * Scale, cy |-> c.y * Scale]
          /\ obs = [Obs0 EXCEPT !.fine0 = TRUE, !.last = "mousemove",
                                !.c0x = c.x * Scale, !.c0y = c.y * Scale]
    /\ cursorDisplay = ""
    /\ load = Loaded
    /\ menu = MenuClosed
    /\ running = Undefined

\* lines 212-222: one frame of the cursor loop; the frames are counted up to
\* ClosedFormSteps + 1
CursorFrame ==
    /\ raf = <<"animateCursor">>
    /\ LET st == animateCursorFrame([particles |-> particles, rng |-> rng,
                                     cursorState |-> cursorState, requests |-> <<>>])
       IN  /\ cursorState' = st.cursorState
           /\ raf' = st.requests
    /\ obs' = [obs EXCEPT !.k = Min(@ + 1, ClosedFormSteps + 1), !.last = "frame"]
    /\ UNCHANGED <<site, envVars, win, fieldVars, timerVars, listeners, cursorDisplay, pageVars>>

\* requestAnimationFrame always runs the callback again
SpecCursor == InitCursor /\ [][CursorFrame]_vars /\ WF_vars(CursorFrame)

\* ------------------------------------------------------------- properties
CanvasWidth == canvas.width * Scale
CanvasHeight == canvas.height * Scale
FieldIsUp == site = "ready" /\ canvasEl
\* the state right after every particle's update: a frame, or the first
\* animate() that the setup calls
AfterUpdate == FieldIsUp /\ obs.last \in {"frame", "initializeSite"}
Ids(ps) == {ps[i].id : i \in DOMAIN ps}

\* C1 (as stated): after its update step every particle lies within the
\* surface, radius <= x <= width - radius and radius <= y <= height - radius,
\* whatever the surface size.
C1_InsideAnySurface ==
    AfterUpdate =>
        \A i \in DOMAIN particles :
            /\ particles[i].radius <= particles[i].x
            /\ particles[i].x <= CanvasWidth - particles[i].radius
            /\ particles[i].radius <= particles[i].y
            /\ particles[i].y <= CanvasHeight - particles[i].radius

\* C1 (amended): after its update step a particle lies within the surface on
\* every axis along which the surface is at least 2 * radius long, also when a
\* resize event shrank the surface under the old collection.
C1_InsideSurface ==
    AfterUpdate =>
        \A i \in DOMAIN particles :
            /\ CanvasWidth >= 2 * particles[i].radius =>
                  /\ particles[i].radius <= particles[i].x
                  /\ particles[i].x <= CanvasWidth - particles[i].radius
            /\ CanvasHeight >= 2 * particles[i].radius =>
                  /\ particles[i].radius <= particles[i].y
                  /\ particles[i].y <= CanvasHeight - particles[i].radius

\* a frame has run on a surface that a resize event shrank under the old
\* collection, and put a particle at the far edge
C1_Witness ==
    /\ FieldIsUp /\ obs.last = "frame" /\ timers # {}
    /\ canvas.width < obs.bornIn.width
    /\ \E i \in DOMAIN particles :
          /\ CanvasWidth >= 2 * particles[i].radius
          /\ particles[i].x = CanvasWidth - particles[i].radius

\* C3: at most one debounce timer is pending; the timer fires DebounceMs after
\* the last resize event of its burst; a burst has made no initParticles call
\* while its timer is pending and exactly one once it has fired.
C3_TimerStep ==
    obs'.last = "timer" => obs.sinceResize = DebounceMs /\ obs'.burstInits = 1
C3_Pending ==
    /\ Cardinality(timers) <= 1
    /\ FieldIsUp /\ obs.resized =>
          /\ timers # {} => obs.burstInits = 0
          /\ timers = {} => obs.burstInits = 1
C3_Debounce == []C3_Pending /\ [][C3_TimerStep]_vars

\* a burst of two resize events has made its one initParticles call
C3_Witness == obs.last = "timer" /\ obs.burstLen >= 2 /\ obs.burstInits = 1

\* C4 (as stated): after the setup the surface's size changes only when the
\* debounce timer fires.
C4_OnlyTimerResizes ==
    [][site = "ready" /\ canvas' # canvas => obs'.last = "timer"]_vars

\* C4 (amended): after the setup the surface always has the window's size (a
\* resize event sets it at once, the timer sets it again), and the collection
\* is replaced only when the debounce timer fires.
C4_CanvasIsWindow == FieldIsUp => canvas = [width |-> win.w, height |-> win.h]
C4_ReplaceStep ==
    site = "ready" /\ Ids(particles') # Ids(particles) => obs'.last = "timer"
C4_ResizeAtOnce == []C4_CanvasIsWindow /\ [][C4_ReplaceStep]_vars

\* a frame has updated the old collection on a surface of another size
C4_Witness == FieldIsUp /\ obs.last = "frame" /\ canvas # obs.bornIn

\* C6: every initParticles call leaves SmallCount particles when
\* window.innerWidth < SmallViewport and LargeCount otherwise, none of them a
\* particle of the collection before the call.
C6_InitStep ==
    obs'.initCalls # obs.initCalls =>
        /\ Len(particles') = IF win'.w < SmallViewport THEN SmallCount ELSE LargeCount
        /\ Ids(particles') \cap Ids(particles) = {}
        /\ Cardinality(Ids(particles')) = Len(particles')
C6_Count == [][C6_InitStep]_vars

\* a debounced resize has replaced a large collection by a small one
C6_Witness ==
    /\ obs.last = "timer" /\ obs.initCalls >= 2
    /\ Len(particles) = SmallCount
    /\ \A i \in DOMAIN particles : particles[i].id > LargeCount

\* C8: without the canvas element the particle field never does anything, and
\* the cursor follower runs as it would with it.
FieldListeners ==
    {"resize:resizeCanvas", "mousemove:mouse", "mouseout:mouse", "resize:debounce"}
CursorRuns ==
    /\ cursorState # Undefined
    /\ Len(SelectSeq(raf, LAMBDA cb : cb = "animateCursor")) = 1
    /\ {"mousemove:cursor", "hover:cursor"} \subseteq listeners
C8_NoCanvas ==
    ~canvasEl =>
        /\ particles = <<>> /\ nextId = 1 /\ mouse = Undefined /\ canvas = Undefined
        /\ Len(SelectSeq(raf, LAMBDA cb : cb = "animate")) = 0
        /\ timers = {} /\ resizeTimer = 0 /\ nextTimer = 1
        /\ listeners \cap FieldListeners = {}
        /\ obs.initCalls = 0
        /\ site = "ready" /\ cursorEl /\ obs.fine0 => CursorRuns

\* without the canvas: a resize and a pointer event were dispatched and the
\* cursor's frames ran
C8_Witness ==
    /\ ~canvasEl /\ obs.resized /\ obs.events >= 2 /\ obs.frames >= 1
    /\ cursorState # Undefined /\ cursorState.cx # cursorState.tx

\* C9: without the indicator element, or without a fine pointer at the setup,
\* the cursor loop is never started and no cursor listener is registered (with
\* a coarse pointer the indicator is hidden); the particle field is set up.
FieldRuns ==
    /\ Len(particles) \in {SmallCount, LargeCount}
    /\ Len(SelectSeq(raf, LAMBDA cb : cb = "animate")) = 1
    /\ FieldListeners \subseteq listeners
C9_NoCursor ==
    site = "ready" /\ (~cursorEl \/ ~obs.fine0) =>
        /\ cursorState = Undefined
        /\ Len(SelectSeq(raf, LAMBDA cb : cb = "animateCursor")) = 0
        /\ listeners \cap {"mousemove:cursor", "hover:cursor"} = {}
        /\ cursorDisplay = (IF cursorEl THEN "none" ELSE "")
        /\ canvasEl => FieldRuns

\* the setup found a coarse pointer, a fine one came later, pointer events and
\* frames followed, and the cursor loop is still off
C9_Witness ==
    /\ cursorEl /\ ~obs.fine0 /\ finePointer /\ canvasEl
    /\ obs.last = "frame" /\ mouse # Undefined

\* C2: after any update step the velocity magnitude is at most maxSpeed,
\* whatever the pointer state and the jitter values.
C2_SpeedWithinCap ==
    obs.last = "update" =>
        particles[1].vx * particles[1].vx + particles[1].vy * particles[1].vy
            <= maxSpeed * maxSpeed

\* C5: a particle's hue is in [0, 360) at creation and after every update;
\* an update advances it by 0.5 modulo 360 and 720 updates in a row bring it
\* back to the hue it started with.
HueCycle == HueModulus \div HueIncrement
C5_HueRange == particles[1].hue >= 0 /\ particles[1].hue < HueModulus
C5_HueStep ==
    particles'[1].hue - particles[1].hue \in {HueIncrement, HueIncrement - HueModulus}
C5_HueBack == obs.steps = HueCycle => particles[1].hue = obs.hue0
C5_Hue == [](C5_HueRange /\ C5_HueBack) /\ [][C5_HueStep]_vars

\* 720 updates have run and the hue, which did not start at 0 and so wrapped
\* on the way, is back
C5_Witness ==
    /\ obs.steps = HueCycle /\ obs.hue0 > 0
    /\ particles[1].hue = obs.hue0

\* C7: with a constant target a frame moves current a tenth of the way to the
\* target on each axis, so that after k frames current is
\* target - (target - current0) * 0.9^k (here for k <= ClosedFormSteps, to the
\* grid's rounding); the distance to the target never grows, current never
\* passes the target, and the distance ends up below CursorEps for good.
CursorEps == Scale \div 20
RECURSIVE Pow(_, _)
Pow(b, n) == IF n = 0 THEN 1 ELSE b * Pow(b, n - 1)
ClosedForm(target, current0, current, k) ==
    Abs((target - current) - Trunc((target - current0) * Pow(9, k), Pow(10, k))) <= k
NoOvershoot(target, current, next) ==
    /\ Abs(target - next) <= Abs(target - current)
    /\ current <= target => next <= target
    /\ current >= target => next >= target
    /\ Abs(10 * (next - current) - (target - current)) < 10
C7_FrameStep ==
    /\ NoOvershoot(cursorState.tx, cursorState.cx, cursorState'.cx)
    /\ NoOvershoot(cursorState.ty, cursorState.cy, cursorState'.cy)
C7_ClosedForm ==
    obs.k <= ClosedFormSteps =>
        /\ ClosedForm(cursorState.tx, obs.c0x, cursorState.cx, obs.k)
        /\ ClosedForm(cursorState.ty, obs.c0y, cursorState.cy, obs.k)
C7_Near ==
    /\ Abs(cursorState.tx - cursorState.cx) < CursorEps
    /\ Abs(cursorState.ty - cursorState.cy) < CursorEps
C7_Cursor == [][C7_FrameStep]_vars /\ []C7_ClosedForm /\ <>[]C7_Near

\* frames have brought a cursor that started 100 px from its target to
\* within CursorEps of it, short of it
C7_Witness ==
    /\ obs.last = "frame" /\ obs.k > ClosedFormSteps
    /\ Abs(cursorState.tx - obs.c0x) = 100 * Scale
    /\ C7_Near /\ cursorState.cx # cursorState.tx

\* C10 (as stated): an update that ends its integration with x - radius < 0
\* leaves x = radius and the x-velocity at -0.5 times what it was before the
\* walls were looked at; x + radius > width gives x = width - radius likewise;
\* the same on the y axis; an axis that touches no edge keeps its velocity.
Halved(before, after) == Abs(2 * after + before) <= 1
AxisAsStated(pos, vel, radius, dim, pos2, vel2) ==
    /\ pos - radius < 0 => pos2 = radius /\ Halved(vel, vel2)
    /\ pos + radius > dim => pos2 = dim - radius /\ Halved(vel, vel2)
    /\ pos - radius >= 0 /\ pos + radius <= dim => pos2 = pos /\ vel2 = vel
C10_StepAsStated ==
    LET b == BeforeBounce(particles[1], mouse, rng)[1]
        a == particles'[1]
    IN  /\ AxisAsStated(b.x, b.vx, b.radius, CanvasWidth, a.x, a.vx)
        /\ AxisAsStated(b.y, b.vy, b.radius, CanvasHeight, a.y, a.vy)
C10_BounceAsStated == [][C10_StepAsStated]_vars

\* C10 (amended): the far-edge rule applies when the near-edge rule did not,
\* that is when x - radius >= 0 and x + radius > width.
AxisRule(pos, vel, radius, dim, pos2, vel2) ==
    /\ pos - radius < 0 => pos2 = radius /\ Halved(vel, vel2)
    /\ pos - radius >= 0 /\ pos + radius > dim =>
          pos2 = dim - radius /\ Halved(vel, vel2)
    /\ pos - radius >= 0 /\ pos + radius <= dim => pos2 = pos /\ vel2 = vel
C10_Step ==
    LET b == BeforeBounce(particles[1], mouse, rng)[1]
        a == particles'[1]
    IN  /\ AxisRule(b.x, b.vx, b.radius, CanvasWidth, a.x, a.vx)
        /\ AxisRule(b.y, b.vy, b.radius, CanvasHeight, a.y, a.vy)
C10_Bounce == [][C10_Step]_vars

\* an update has bounced a particle off the near edge on x (it now moves
\* right) and another update off the far edge on y
C10_Witness ==
    /\ obs.last = "update"
    /\ particles[1].x = particles[1].radius /\ particles[1].vx > 0
    /\ particles[1].y = CanvasHeight - particles[1].radius /\ particles[1].vy < 0
    /\ CanvasHeight >= 2 * particles[1].radius

\* C11: the pointer is absent from the setup until the first mousemove and
\* from every mouseout until the next mousemove; an update made while it is
\* absent, or while the particle is 100 px or more away from it, changes the
\* velocity by friction, cap, jitter and bounce only.
OutOfRange(p, m) ==
    \/ m = Undefined
    \/ Abs(p.x - m.x * Scale) >= repelRadius
    \/ Abs(p.y - m.y * Scale) >= repelRadius
    \/ (p.x - m.x * Scale) * (p.x - m.x * Scale)
         + (p.y - m.y * Scale) * (p.y - m.y * Scale) >= repelRadius * repelRadius
NoPointerUpdate(p, c, r) ==
    Bounce(Integrate(Jitter(SpeedCap(Friction([p EXCEPT !.hue = HueStep(@)])), r)[1]), c)
JitterOffsets(ps, m) ==
    RunningSum(AsSeq([i \in 1 .. Len(ps) |-> JitterCalls(Capped(ps[i], m))]))
C11_PointerState ==
    /\ site = "loading" \/ obs.last \in {"initializeSite", "mouseout"} => mouse = Undefined
    /\ obs.last = "mousemove" /\ canvasEl => mouse # Undefined
C11_PointerStep ==
    /\ mouse' # mouse => obs'.last \in {"mousemove", "mouseout"}
    /\ obs'.last = "frame" /\ obs'.frames # obs.frames =>
          LET off == JitterOffsets(particles, mouse)
          IN  \A i \in DOMAIN particles :
                 OutOfRange(particles[i], mouse) =>
                    particles'[i] =
                       NoPointerUpdate(particles[i], canvas,
                                       RandomAt(rng, IF i = 1 THEN 0 ELSE off[i - 1]))
C11_PointerAbsent == []C11_PointerState /\ [][C11_PointerStep]_vars

\* two frames have run with the pointer present, a particle out of its range
C11_Witness ==
    /\ FieldIsUp /\ obs.last = "frame" /\ obs.frames >= 2 /\ mouse # Undefined
    /\ \E i \in DOMAIN particles : OutOfRange(particles[i], mouse)

\* C12: once started the particle loop runs on: a frame updates every particle
\* of the collection once, in collection order, and requests one next frame, so
\* that exactly one animate callback is pending between frames; no pointer,
\* resize or timer event stops the loop or starts a second one: the loop gets
\* through every frame that is counted (MaxFrames of them).
PendingAnimate == Len(SelectSeq(raf, LAMBDA cb : cb = "animate"))
C12_OnePending == PendingAnimate = (IF FieldIsUp THEN 1 ELSE 0)
C12_LoopStep ==
    /\ raf' # raf => obs'.last \in {"frame", "initializeSite"}
    /\ obs'.frames # obs.frames =>
          /\ Len(particles') = Len(particles)
          /\ \A i \in DOMAIN particles :
                /\ particles'[i].id = particles[i].id
                /\ particles'[i].hue = (particles[i].hue + HueIncrement) % HueModulus
C12_Loop ==
    /\ []C12_OnePending
    /\ [][C12_LoopStep]_vars
    /\ (FieldIsUp ~> obs.frames = MaxFrames)

\* the loop has run MaxFrames frames, a debounced resize and a pointer event
\* in between, and its callback is pending again
C12_Witness ==
    /\ FieldIsUp /\ obs.frames = MaxFrames /\ obs.last = "frame"
    /\ obs.initCalls >= 2 /\ PendingAnimate = 1

\* C13: with the pointer exactly on a particle the repulsion adds maxForce to
\* velocity.x and nothing to velocity.y (force 1 at angle atan2(0, 0) = 0), and
\* the update divides by nothing that is zero.
OnPointer(p, m) == m # Undefined /\ p.x = m.x * Scale /\ p.y = m.y * Scale
C13_Step ==
    obs'.steps # obs.steps /\ OnPointer(particles[1], mouse) =>
        particles'[1] =
            NoPointerUpdate([particles[1] EXCEPT !.vx = @ + maxForce], canvas, rng)
C13_OnPointer == [][C13_Step]_vars

\* one update has pushed the mid-surface particle from under the pointer to
\* the right, at the speed cap
C13_Witness ==
    /\ obs.last = "update" /\ obs.steps = 1
    /\ mouse = [x |-> 512, y |-> 384]
    /\ particles[1].x = 512 * Scale + maxSpeed
    /\ particles[1].vx = maxSpeed

\* C14: for a pointer at distance dist < 100 px the repulsion adds a velocity
\* of magnitude maxForce * (100 - dist) / 100, force in (0, 1], that points from
\* the pointer to the particle, and a smaller dist gives a larger force.
\* Magnitudes are compared to the grid's rounding (2 units); "larger" is strict
\* for a pointer at least 2 px closer.
OffsetX(p, m) == p.x - m.x * Scale
OffsetY(p, m) == p.y - m.y * Scale
Near(p, m) ==
    /\ m # Undefined
    /\ Abs(OffsetX(p, m)) < repelRadius /\ Abs(OffsetY(p, m)) < repelRadius
    /\ OffsetX(p, m) * OffsetX(p, m) + OffsetY(p, m) * OffsetY(p, m)
          <= (repelRadius - 1) * (repelRadius - 1)
Away(p, m) == Sqrt(OffsetX(p, m) * OffsetX(p, m) + OffsetY(p, m) * OffsetY(p, m))
PushX(p, m) == Repel(p, m).vx - p.vx
PushY(p, m) == Repel(p, m).vy - p.vy
PushSize(p, m) == Sqrt(PushX(p, m) * PushX(p, m) + PushY(p, m) * PushY(p, m))
C14_Force ==
    LET p == particles[1]
    IN  Near(p, mouse) =>
           /\ repelRadius - Away(p, mouse) > 0
           /\ repelRadius - Away(p, mouse) <= repelRadius
           /\ Abs(PushSize(p, mouse) * repelRadius
                    - maxForce * (repelRadius - Away(p, mouse))) <= 2 * repelRadius
           /\ PushX(p, mouse) * OffsetX(p, mouse) >= 0
           /\ PushY(p, mouse) * OffsetY(p, mouse) >= 0
           /\ Abs(PushX(p, mouse) * OffsetY(p, mouse) - PushY(p, mouse) * OffsetX(p, mouse))
                 <= Abs(OffsetX(p, mouse)) + Abs(OffsetY(p, mouse))
           /\ \A m2 \in ProbePoints :
                 /\ Near(p, m2) /\ Away(p, m2) < Away(p, mouse) =>
                       PushSize(p, m2) + 2 >= PushSize(p, mouse)
                 /\ Near(p, m2) /\ Away(p, m2) + 2 * Scale <= Away(p, mouse) =>
                       PushSize(p, m2) > PushSize(p, mouse)

\* an update has pushed the particle away from a pointer that is still in
\* range, off both axes, and another probe point is closer to the particle
C14_Witness ==
    /\ obs.last = "update" /\ Near(particles[1], mouse)
    /\ OffsetX(particles[1], mouse) # 0 /\ OffsetY(particles[1], mouse) # 0
    /\ particles[1].vx * OffsetX(particles[1], mouse) > 0
    /\ \E m2 \in ProbePoints :
          /\ Near(particles[1], m2)
          /\ Away(particles[1], m2) + 2 * Scale <= Away(particles[1], mouse)

\* C15: a particle frame is atomic with respect to events: pointer, resize
\* and timer handlers run only between frames, so a frame updates every
\* particle against one pointer state and one canvas size, and goes through
\* one complete collection.
C15_InFrame ==
    running # Undefined =>
        /\ mouse = obs.mouse0 /\ canvas = obs.canvas0
        /\ Len(particles) \in {SmallCount, LargeCount}
        /\ Len(particles) = Len(obs.ps0)
        /\ \A i \in DOMAIN particles : particles[i].id = obs.ps0[i].id
C15_FrameDone ==
    obs.last = "frame" =>
        /\ particles = UpdateAll(obs.ps0, obs.mouse0, obs.canvas0, obs.rng0)[1]
        /\ rng = UpdateAll(obs.ps0, obs.mouse0, obs.canvas0, obs.rng0)[2]
C15_HandlerStep ==
    mouse' # mouse \/ canvas' # canvas \/ win' # win \/ timers' # timers
        \/ Ids(particles') # Ids(particles)
      => running = Undefined /\ running' = Undefined
C15_Atomic == [](C15_InFrame /\ C15_FrameDone) /\ [][C15_HandlerStep]_vars

\* a frame is under way, some particles updated and some not, while a
\* debounce timer is due whose callback has to wait
C15_Witness ==
    /\ running # Undefined /\ running.i > 1 /\ running.i <= Len(particles)
    /\ TimerDue /\ obs.frames >= 1

\* C16: initializeSite runs exactly once and only after both fetches have
\* settled; a fetch that fails is logged and does not keep the initialization
\* from happening; the setup steps run in the order theme toggle, mobile menu,
\* custom cursor, particle canvas.
Failures == {f \in {"header", "footer"} : load[f] = "failed"}
C16_Once ==
    /\ obs.siteInits = (IF site = "ready" THEN 1 ELSE 0)
    /\ site = "ready" =>
          /\ load.header # "pending" /\ load.footer # "pending"
          /\ Len(obs.setup) = 4
          /\ obs.setup[1] = "setupThemeToggle" /\ obs.setup[2] = "setupMobileMenu"
          /\ obs.setup[3] = "setupCustomCursor" /\ obs.setup[4] = "setupParticleCanvas"
          /\ cursorEl /\ finePointer /\ canvasEl => raf = <<"animateCursor", "animate">>
    /\ {load.errors[i].file : i \in DOMAIN load.errors} = Failures
    /\ Len(load.errors) = Cardinality(Failures)
C16_InitStep ==
    obs'.siteInits # obs.siteInits =>
        /\ load.header # "pending" /\ load.footer # "pending"
        /\ load' = load
C16_Initialize == []C16_Once /\ [][C16_InitStep]_vars /\ <>(site = "ready")

\* the header fetch failed on the network, the footer's got a bad status, and
\* the site is set up
C16_Witness ==
    /\ site = "ready" /\ obs.siteInits = 1
    /\ load.header = "failed" /\ load.footer = "failed"
    /\ load.errors = <<[file |-> "header", cause |-> "network"],
                       [file |-> "footer", cause |-> "status"]>>

MenuOpen == menu.slide /\ menu.locked
MenuShut == ~menu.slide /\ ~menu.locked

\* C17: whatever the order and timing of the openMenu and closeMenu calls, once
\* no menu timer is pending the overlay agrees with the menu: an open menu has
\* an overlay with neither 'hidden' nor 'opacity-0', a closed menu an overlay
\* with both.
C17_OverlayAgrees ==
    (site = "ready" /\ menu.timers = <<>>) =>
        /\ MenuOpen => ~menu.hidden /\ ~menu.opacity0
        /\ MenuShut => menu.hidden /\ menu.opacity0

\* The two halves of C17 apart: a settled open menu never has a hidden
\* overlay, a settled closed menu never has a visible one
C17_OpenNotHidden ==
    (site = "ready" /\ menu.timers = <<>> /\ MenuOpen) => ~menu.hidden
C17_ShutNotShown ==
    (site = "ready" /\ menu.timers = <<>> /\ MenuShut) => menu.opacity0

\* The menu is always open or closed, and the slide and the scroll lock
\* follow the last call at once
C17_MenuState ==
    /\ MenuOpen \/ MenuShut
    /\ obs.last = "openMenu" => MenuOpen
    /\ obs.last = "closeMenu" => MenuShut

====
